---------------------------- MODULE Spec2Model ----------------------------
(***************************************************************************)
(* The job store of api.py and its three handlers: create_job,             *)
(* get_job_details and split_pdf_by_confidence.  The remote splitting      *)
(* service and the uploaded files are the environment: every handler       *)
(* draws what they deliver from the bounded sets defined below.            *)
(* The script autosplit.py is a process of its own; SpecScript runs it     *)
(* beside the server.                                                      *)
(***************************************************************************)
EXTENDS Integers, Sequences, FiniteSets, TLC

VARIABLES
    jobs_storage,   \* api.py:22, job id -> stored job
    response,       \* what the last handler call gave its caller
    frame,          \* the locals of the last split_pdf_by_confidence call
    request,        \* how the remote status request of the last
                    \* get_job_details call ended
    client          \* autosplit.py: the script's position, the status of
                    \* its `job` and the exception that ended it

vars == <<jobs_storage, response, frame, request, client>>

-----------------------------------------------------------------------------
(* Bounds of the model *)

\* job ids create_job can hand out
MaxJobs == 1
\* largest page count of an uploaded PDF
MaxTotalPages == 3
\* largest page number the remote service reports in a segment
MaxPage == 3
\* longest `pages` list of one segment
MaxPagesLen == 1
\* most segments in one remote result
MaxSegments == 2

-----------------------------------------------------------------------------
(* Values *)

JobIds == 1..MaxJobs
\* a job id no create_job call ever returned
UnknownJobId == 0

Statuses == {"pending", "processing", "completed", "failed"}
\* dict.get on an absent key
Missing == "<missing>"

ConfidenceCategories == {"high", "low"}

RECURSIVE SeqsUpTo(_, _)
\* the sequences over S of length at most n
SeqsUpTo(S, n) ==
    IF n = 0 THEN {<<>>}
    ELSE LET shorter == SeqsUpTo(S, n - 1)
         IN  shorter \cup {Append(s, x) : s \in {t \in shorter : Len(t) = n - 1}, x \in S}

PageLists == SeqsUpTo(1..MaxPage, MaxPagesLen)

\* one segment of a remote result; has_pages = FALSE is a segment without
\* the `pages` key
Segments ==
    {[confidence_category |-> c, has_pages |-> TRUE, pages |-> p] :
        c \in ConfidenceCategories, p \in PageLists}
    \cup {[confidence_category |-> c, has_pages |-> FALSE, pages |-> <<>>] :
        c \in ConfidenceCategories}

\* Python None / an empty dict: a result that is falsy
NoResult == [truthy |-> FALSE, has_segments |-> FALSE, segments |-> <<>>]
\* a non-empty dict without the `segments` key
ResultWithoutSegments == [truthy |-> TRUE, has_segments |-> FALSE, segments |-> <<>>]

Results ==
    {NoResult, ResultWithoutSegments}
    \cup {[truthy |-> TRUE, has_segments |-> TRUE, segments |-> s] :
            s \in SeqsUpTo(Segments, MaxSegments)}

\* file names, one character per element
Filenames ==
    { <<"a", ".", "p", "d", "f">>,
      <<"b", ".", "c", ".", "P", "D", "F">>,
      <<"d">> }

\* uploaded bytes: kind "none" is None (no file was uploaded), "empty" is b"",
\* "corrupt" is bytes PdfReader cannot open, "pdf" is a PDF of npages pages;
\* a truncated PDF has a last page that cannot be read
NoContent == [kind |-> "none", npages |-> 0, truncated |-> FALSE]
Contents ==
    {[kind |-> "empty", npages |-> 0, truncated |-> FALSE],
     [kind |-> "corrupt", npages |-> 0, truncated |-> FALSE]}
    \cup {[kind |-> "pdf", npages |-> n, truncated |-> t] :
            n \in 1..MaxTotalPages, t \in BOOLEAN}

NoFile == [present |-> FALSE, filename |-> <<>>, content |-> NoContent]
Files == [present : {TRUE}, filename : Filenames, content : Contents]

-----------------------------------------------------------------------------
(* split_pdf_by_confidence: the pure steps *)

RECURSIVE HighConfidencePagesAnyCategory(_)
\* the pages of all segments, whatever their confidence category
HighConfidencePagesAnyCategory(segments) ==
    IF segments = <<>> THEN <<>>
    ELSE LET segment == Head(segments)
             pages == IF segment.has_pages THEN segment.pages ELSE <<>>
         IN  pages \o HighConfidencePagesAnyCategory(Tail(segments))

RECURSIVE HighConfidencePages(_)
\* api.py:487-493: the pages of the "high" segments, in segment order; a
\* segment without `pages` reads as [] and adds nothing
HighConfidencePages(segments) ==
    IF segments = <<>> THEN <<>>
    ELSE LET segment == Head(segments)
             pages == IF segment.has_pages THEN segment.pages ELSE <<>>
             taken == IF segment.confidence_category = "high" /\ Len(pages) > 0
                      THEN pages ELSE <<>>
         IN  taken \o HighConfidencePages(Tail(segments))

\* set(pages)
ToSet(s) == {s[i] : i \in 1..Len(s)}

Min(S) == CHOOSE x \in S : \A y \in S : x <= y

RECURSIVE Sorted(_)
\* sorted(S) of a set of integers
Sorted(S) == IF S = {} THEN <<>> ELSE <<Min(S)>> \o Sorted(S \ {Min(S)})

RECURSIVE SortedList(_)
\* sorted(pages) without set(): duplicates are kept
SortedList(pages) ==
    IF pages = <<>> THEN <<>>
    ELSE LET m == Min(ToSet(pages))
             i == CHOOSE j \in 1..Len(pages) : pages[j] = m
         IN  <<m>> \o SortedList(SubSeq(pages, 1, i - 1) \o SubSeq(pages, i + 1, Len(pages)))

\* api.py:499
SortedSet(pages) == Sorted(ToSet(pages))

\* the ranges with each end at the next marked page instead of the page before it
SplitRangesOverlapping(high_confidence_pages, total_pages) ==
    LET n == Len(high_confidence_pages)
        leading == IF high_confidence_pages[1] > 1
                   THEN << <<1, high_confidence_pages[1] - 1>> >>
                   ELSE <<>>
        marked == [i \in 1..n |->
                     << high_confidence_pages[i],
                        IF i < n THEN high_confidence_pages[i + 1]
                                 ELSE total_pages >>]
    IN  leading \o marked

\* the ranges with the leading range emitted also when the first mark is page 1
SplitRangesAlwaysLeading(high_confidence_pages, total_pages) ==
    LET n == Len(high_confidence_pages)
        marked == [i \in 1..n |->
                     << high_confidence_pages[i],
                        IF i < n THEN high_confidence_pages[i + 1] - 1
                                 ELSE total_pages >>]
    IN  << <<1, high_confidence_pages[1] - 1>> >> \o marked

\* api.py:508-523: high_confidence_pages is sorted, distinct and not empty
SplitRanges(high_confidence_pages, total_pages) ==
    LET n == Len(high_confidence_pages)
        leading == IF high_confidence_pages[1] > 1
                   THEN << <<1, high_confidence_pages[1] - 1>> >>
                   ELSE <<>>
        marked == [i \in 1..n |->
                     << high_confidence_pages[i],
                        IF i < n THEN high_confidence_pages[i + 1] - 1
                                 ELSE total_pages >>]
    IN  leading \o marked

\* api.py:531: range(start - 1, min(end, total_pages)), as 1-based page numbers
PagesOfRange(start, end, total_pages) ==
    LET last == IF end < total_pages THEN end ELSE total_pages
    IN  IF last < start THEN <<>>
        ELSE [k \in 1..(last - start + 1) |-> start + k - 1]

RECURSIVE Join(_)
\* "".join(chars)
Join(chars) == IF chars = <<>> THEN "" ELSE Head(chars) \o Join(Tail(chars))

\* split('.')[0]: the name up to its first '.'
BaseNameFirstDot(filename) ==
    LET dots == {i \in 1..Len(filename) : filename[i] = "."}
    IN  IF dots = {} THEN filename
        ELSE SubSeq(filename, 1, (CHOOSE i \in dots : \A j \in dots : i <= j) - 1)

\* api.py:540: rsplit('.', 1)[0] if '.' in name else name
BaseName(filename) ==
    LET dots == {i \in 1..Len(filename) : filename[i] = "."}
    IN  IF dots = {} THEN filename
        ELSE SubSeq(filename, 1, (CHOOSE i \in dots : \A j \in dots : j <= i) - 1)

\* api.py:541
SplitFilename(filename, idx, start, end) ==
    Join(BaseName(filename)) \o "_part_" \o ToString(idx) \o "_pages_"
        \o ToString(start) \o "-" \o ToString(end) \o ".pdf"

\* api.py:560
ZipFilename(filename) == Join(BaseName(filename)) \o "_split_pdfs.zip"

\* api.py:528-547: one pass of the loop body; `raised` when a page of the
\* range cannot be read (pdf_reader.pages[page_num] raises)
SplitPdf(content, filename, idx, range) ==
    LET pages == PagesOfRange(range[1], range[2], content.npages)
    IN  [raised |-> content.truncated
                    /\ \E k \in 1..Len(pages) : pages[k] = content.npages,
         pdf |-> [filename |-> SplitFilename(filename, idx, range[1], range[2]),
                  content |-> pages,
                  pages |-> ToString(range[1]) \o "-" \o ToString(range[2])]]

RECURSIVE SplitPdfsSkipFailed(_, _, _, _)
\* the loop with a range that raises skipped instead of ending the call
SplitPdfsSkipFailed(content, filename, split_ranges, idx) ==
    IF idx > Len(split_ranges) THEN [raised |-> FALSE, split_pdfs |-> <<>>]
    ELSE LET one == SplitPdf(content, filename, idx, split_ranges[idx])
             rest == SplitPdfsSkipFailed(content, filename, split_ranges, idx + 1)
         IN  [raised |-> FALSE,
              split_pdfs |-> (IF one.raised THEN <<>> ELSE <<one.pdf>>)
                                 \o rest.split_pdfs]

RECURSIVE SplitPdfs(_, _, _, _)
\* api.py:526-547: the loop over split_ranges from position idx on; it stops
\* at the first range that raises
SplitPdfs(content, filename, split_ranges, idx) ==
    IF idx > Len(split_ranges) THEN [raised |-> FALSE, split_pdfs |-> <<>>]
    ELSE LET one == SplitPdf(content, filename, idx, split_ranges[idx])
         IN  IF one.raised THEN [raised |-> TRUE, split_pdfs |-> <<>>]
             ELSE LET rest == SplitPdfs(content, filename, split_ranges, idx + 1)
                  IN  [raised |-> rest.raised,
                       split_pdfs |-> <<one.pdf>> \o rest.split_pdfs]

\* api.py:550-553: one archive entry per split pdf, in list order
ZipEntries(split_pdfs) ==
    [i \in 1..Len(split_pdfs) |->
        [filename |-> split_pdfs[i].filename, content |-> split_pdfs[i].content]]

-----------------------------------------------------------------------------
(* The handlers' results *)

\* a handler's answer: the HTTP status code, the HTTPException's detail
\* ("" when none was raised) and the body of a 200 answer
Response(op, job_id, status_code, detail, body) ==
    [op |-> op, job_id |-> job_id, status_code |-> status_code,
     detail |-> detail, body |-> body]

NoBody == [kind |-> "none"]

\* the locals of split_pdf_by_confidence not yet assigned
NoFrame ==
    [op |-> "none", job_id |-> UnknownJobId,
     collected |-> FALSE, high_confidence_pages |-> <<>>,
     opened |-> FALSE, total_pages |-> 0,
     derived |-> FALSE, split_ranges |-> <<>>,
     split_pdfs |-> <<>>]

\* the check left out
NoHighConfidencePagesUnchecked(collected) == FALSE

\* api.py:495: `if not high_confidence_pages`
NoHighConfidencePages(collected) == collected = <<>>

\* api.py:466-571 for a stored job: the answer and the locals at return
SplitJob(job_id, job) ==
    LET called == [NoFrame EXCEPT !.op = "split", !.job_id = job_id]
        result == job.result
        original_file_content == job.original_file_content
        collected == HighConfidencePages(result.segments)
        high_confidence_pages == SortedSet(collected)
        total_pages == original_file_content.npages
        split_ranges == SplitRanges(high_confidence_pages, total_pages)
        sliced == SplitPdfs(original_file_content, job.filename, split_ranges, 1)
        pages_frame == [called EXCEPT !.collected = TRUE,
                                      !.high_confidence_pages = high_confidence_pages]
        ranges_frame == [pages_frame EXCEPT !.opened = TRUE,
                                            !.total_pages = total_pages,
                                            !.derived = TRUE,
                                            !.split_ranges = split_ranges,
                                            !.split_pdfs = sliced.split_pdfs]
    IN  IF job.status # "completed"
        THEN [response |-> Response("split", job_id, 400,
                  "Job is not completed. Current status: " \o job.status, NoBody),
              frame |-> called]
        ELSE IF ~result.truthy \/ ~result.has_segments
        THEN [response |-> Response("split", job_id, 400,
                  "Job result not available or invalid", NoBody),
              frame |-> called]
        ELSE IF original_file_content.kind \in {"none", "empty"}
        THEN [response |-> Response("split", job_id, 400,
                  "Original file not available. Please upload file again or use file_id method.",
                  NoBody),
              frame |-> called]
        ELSE IF NoHighConfidencePages(collected)
        THEN [response |-> Response("split", job_id, 400,
                  "No high confidence pages found in the result", NoBody),
              frame |-> [called EXCEPT !.collected = TRUE]]
        ELSE IF original_file_content.kind = "corrupt"
        THEN [response |-> Response("split", job_id, 500,
                  "Error splitting PDF: cannot read the PDF", NoBody),
              frame |-> pages_frame]
        ELSE IF high_confidence_pages = <<>>
        THEN \* api.py:511: high_confidence_pages[0] of an empty list raises
             [response |-> Response("split", job_id, 500,
                  "Error splitting PDF: list index out of range", NoBody),
              frame |-> [pages_frame EXCEPT !.opened = TRUE,
                                            !.total_pages = total_pages]]
        ELSE IF sliced.raised
        THEN [response |-> Response("split", job_id, 500,
                  "Error splitting PDF: cannot read a page", NoBody),
              frame |-> ranges_frame]
        ELSE [response |-> Response("split", job_id, 200, "",
                  [kind |-> "zip",
                   filename |-> ZipFilename(job.filename),
                   entries |-> ZipEntries(sliced.split_pdfs)]),
              frame |-> ranges_frame]

-----------------------------------------------------------------------------
(* What the environment delivers *)

\* the file_id form field: "" when it is not sent
FileIdInputs == {"", "not-a-uuid", "fa6e821e-7c62-4754-ab64-08872f8afc88"}

\* uuid.UUID(file_id) does not raise
IsUuid(file_id) == file_id = "fa6e821e-7c62-4754-ab64-08872f8afc88"

\* how the remote calls of create_job (upload, split job creation) end:
\* ok = FALSE when no split job could be created; id and status are the keys
\* of the split job ("" and Missing when the key is absent)
CreateOutcomes ==
    {[ok |-> FALSE, id |-> "", status |-> Missing]}
    \cup [ok : {TRUE}, id : {"", "remote-job"}, status : Statuses \cup {Missing}]

\* how GET /beta/split/jobs/{id} ends: ok = FALSE when the request raises
\* or gives an HTTP error; result is read of a "completed" answer only and
\* error_message of a "failed" one
GetOutcomes ==
    {[ok |-> FALSE, status |-> Missing, result |-> NoResult, error_message |-> Missing]}
    \cup [ok : {TRUE}, status : (Statuses \ {"completed", "failed"}) \cup {Missing},
          result : {NoResult}, error_message : {Missing}]
    \cup [ok : {TRUE}, status : {"completed"}, result : Results,
          error_message : {Missing}]
    \cup [ok : {TRUE}, status : {"failed"}, result : {NoResult},
          error_message : {Missing}]

-----------------------------------------------------------------------------
(* The handlers *)

\* the state of api.py when the server starts
InitApi ==
    /\ jobs_storage = <<>>
    /\ response = Response("none", UnknownJobId, 0, "", NoBody)
    /\ frame = NoFrame
    /\ request = "none"

\* autosplit.py before python has read it: nothing was requested, `job` is
\* not bound
InitClient == [pc |-> "start", status |-> "", error |-> ""]

Init ==
    /\ InitApi
    /\ client = InitClient

\* api.py:374-384; created_at and file_id, which no handler reads, are left out
NewJob(job_id, file, file_id, remote) ==
    [job_id |-> job_id,
     llamaindex_job_id |-> remote.id,
     status |-> IF remote.status = Missing THEN "pending" ELSE remote.status,
     filename |-> file.filename,
     original_file_content |-> file.content,
     result |-> NoResult,
     error_message |-> ""]

\* api.py:70-396; job_id \in JobIds caps the number of calls
create_job(file, file_id, remote) ==
    LET job_id == Len(jobs_storage) + 1
    IN  /\ job_id \in JobIds
        /\ frame' = NoFrame
        /\ request' = "none"
        /\ UNCHANGED client
        /\ IF ~file.present /\ file_id = ""
           THEN /\ response' = Response("create", UnknownJobId, 400,
                        "Either 'file' or 'file_id' must be provided", NoBody)
                /\ UNCHANGED jobs_storage
           ELSE IF (file_id # "" /\ ~IsUuid(file_id)) \/ ~remote.ok
           THEN /\ response' = Response("create", UnknownJobId, 500,
                        "Internal server error", NoBody)
                /\ UNCHANGED jobs_storage
           ELSE /\ jobs_storage' = Append(jobs_storage,
                                          NewJob(job_id, file, file_id, remote))
                /\ response' = Response("create", job_id, 200, "",
                        [kind |-> "job", status |-> jobs_storage'[job_id].status,
                         message |-> "Job created successfully"])

\* the update with the result taken from every answer, completed or not
UpdatedJobOverwritingResult(job, remote) ==
    LET status == IF remote.status = Missing THEN job.status ELSE remote.status
    IN  IF remote.status = "failed"
        THEN [job EXCEPT !.status = status, !.result = remote.result,
                         !.error_message = IF remote.error_message = Missing
                                           THEN "Job failed"
                                           ELSE remote.error_message]
        ELSE [job EXCEPT !.status = status, !.result = remote.result]

\* api.py:430-439
UpdatedJob(job, remote) ==
    LET status == IF remote.status = Missing THEN job.status ELSE remote.status
    IN  IF remote.status = "completed" /\ remote.result.truthy
        THEN [job EXCEPT !.status = status, !.result = remote.result]
        ELSE IF remote.status = "failed"
        THEN [job EXCEPT !.status = status,
                         !.error_message = IF remote.error_message = Missing
                                           THEN "Job failed"
                                           ELSE remote.error_message]
        ELSE [job EXCEPT !.status = status]

\* api.py:400-453
get_job_details(job_id, remote) ==
    /\ frame' = NoFrame
    /\ UNCHANGED client
    /\ IF job_id \notin DOMAIN jobs_storage
       THEN /\ response' = Response("get", job_id, 404, "Job not found", NoBody)
            /\ request' = "none"
            /\ UNCHANGED jobs_storage
       ELSE LET job == jobs_storage[job_id]
                updated == IF job.llamaindex_job_id # "" /\ remote.ok
                           THEN UpdatedJob(job, remote) ELSE job
            IN  /\ jobs_storage' = [jobs_storage EXCEPT ![job_id] = updated]
                /\ request' = IF job.llamaindex_job_id = "" THEN "none"
                              ELSE IF remote.ok THEN "answered" ELSE "failed"
                /\ response' = Response("get", job_id, 200, "",
                        [kind |-> "details", status |-> updated.status,
                         result |-> updated.result,
                         error_message |-> updated.error_message])

\* api.py:408-427: the remote service is asked only for a stored job that has
\* a llamaindex_job_id
GetOutcomesFor(job_id) ==
    IF job_id \in DOMAIN jobs_storage /\ jobs_storage[job_id].llamaindex_job_id # ""
    THEN GetOutcomes
    ELSE {[ok |-> FALSE, status |-> Missing, result |-> NoResult,
           error_message |-> Missing]}

\* the call with the stored file bytes released once it has read the job
split_pdf_by_confidenceDroppingFile(job_id) ==
    /\ request' = "none"
    /\ UNCHANGED client
    /\ IF job_id \notin DOMAIN jobs_storage
       THEN /\ response' = Response("split", job_id, 404, "Job not found", NoBody)
            /\ frame' = [NoFrame EXCEPT !.op = "split", !.job_id = job_id]
            /\ UNCHANGED jobs_storage
       ELSE LET out == SplitJob(job_id, jobs_storage[job_id])
            IN  /\ response' = out.response
                /\ frame' = out.frame
                /\ jobs_storage' =
                      [jobs_storage EXCEPT ![job_id].original_file_content = NoContent]

\* the call with the stored status taken as "completed"
split_pdf_by_confidenceAnyStatus(job_id) ==
    /\ UNCHANGED jobs_storage
    /\ request' = "none"
    /\ UNCHANGED client
    /\ IF job_id \notin DOMAIN jobs_storage
       THEN /\ response' = Response("split", job_id, 404, "Job not found", NoBody)
            /\ frame' = [NoFrame EXCEPT !.op = "split", !.job_id = job_id]
       ELSE LET out == SplitJob(job_id,
                           [jobs_storage[job_id] EXCEPT !.status = "completed"])
            IN  /\ response' = out.response
                /\ frame' = out.frame

\* api.py:457-571
split_pdf_by_confidence(job_id) ==
    /\ UNCHANGED jobs_storage
    /\ request' = "none"
    /\ UNCHANGED client
    /\ IF job_id \notin DOMAIN jobs_storage
       THEN /\ response' = Response("split", job_id, 404, "Job not found", NoBody)
            /\ frame' = [NoFrame EXCEPT !.op = "split", !.job_id = job_id]
       ELSE LET out == SplitJob(job_id, jobs_storage[job_id])
            IN  /\ response' = out.response
                /\ frame' = out.frame

Next ==
    \/ \E file \in Files \cup {NoFile}, file_id \in FileIdInputs,
          remote \in CreateOutcomes : create_job(file, file_id, remote)
    \/ \E job_id \in JobIds \cup {UnknownJobId} :
          \E remote \in GetOutcomesFor(job_id) : get_job_details(job_id, remote)
    \/ \E job_id \in JobIds \cup {UnknownJobId} : split_pdf_by_confidence(job_id)

Spec == Init /\ [][Next]_vars

\* autosplit.py:41: the statuses the script keeps polling on
PollingStatuses == {"pending", "processing"}

\* autosplit.py:16-17: one run of the script.  The string literal opened on
\* line 16 is not closed before the line ends, so python rejects the module
\* when it compiles it ("SyntaxError: unterminated string literal (detected
\* at line 16)") and runs no statement of it: no split job is created
\* (21-36), no status is requested (41-49), no result is printed (52-58).
autosplit ==
    /\ client.pc = "start"
    /\ client' = [client EXCEPT !.pc = "exited", !.error = "SyntaxError"]
    /\ UNCHANGED <<jobs_storage, response, frame, request>>

\* the script run while the server takes uploads and split requests (the
\* script and the server share no state, so the server's status refresh is
\* left to Spec)
NextScript ==
    \/ autosplit
    \/ \E file \in Files \cup {NoFile}, file_id \in FileIdInputs,
          remote \in CreateOutcomes : create_job(file, file_id, remote)
    \/ \E job_id \in JobIds \cup {UnknownJobId} : split_pdf_by_confidence(job_id)

SpecScript == Init /\ [][NextScript]_vars

-----------------------------------------------------------------------------
(* What the last split_pdf_by_confidence call was given *)

\* the last call was split_pdf_by_confidence on a stored job
SplitCalled == frame.op = "split" /\ frame.job_id \in DOMAIN jobs_storage

\* the job it read (the call leaves jobs_storage as it was)
SplitJobRead == jobs_storage[frame.job_id]

\* the marked pages: the pages listed by the "high" segments of the result
MarkedPages ==
    LET segments == SplitJobRead.result.segments
    IN  {p \in 1..MaxPage :
            \E i \in 1..Len(segments) :
                /\ segments[i].confidence_category = "high"
                /\ segments[i].has_pages
                /\ \E k \in 1..Len(segments[i].pages) : segments[i].pages[k] = p}

\* the page count of the source
TotalPages == SplitJobRead.original_file_content.npages

\* the call derived ranges from a valid input: a source of at least one page
\* and a non-empty set of marked pages, all of them pages of the source
ValidDerivation ==
    /\ SplitCalled
    /\ frame.derived
    /\ TotalPages >= 1
    /\ MarkedPages # {}
    /\ \A p \in MarkedPages : p <= TotalPages

-----------------------------------------------------------------------------
(* Range derivation *)

\* C1: for a valid input the derived ranges partition the document: each
\* range has 1 <= start <= end <= totalPages, the first starts at page 1,
\* each next one starts at the previous end + 1 (so they are ascending, with
\* no gap and no overlap), and the last ends at totalPages.
C1_RangesPartitionDocument ==
    ValidDerivation =>
        LET r == frame.split_ranges
        IN  /\ Len(r) >= 1
            /\ \A i \in 1..Len(r) :
                  1 <= r[i][1] /\ r[i][1] <= r[i][2] /\ r[i][2] <= TotalPages
            /\ r[1][1] = 1
            /\ \A i \in 1..(Len(r) - 1) :
                  r[i + 1][1] = r[i][2] + 1 /\ r[i][1] < r[i + 1][1]
            /\ r[Len(r)][2] = TotalPages

\* a valid derivation that gave three ranges
C1_Witness ==
    ValidDerivation /\ Len(frame.split_ranges) = 3

\* C2: for a valid input every marked page is the start of exactly one range,
\* also when the pages arrived duplicated or unsorted, and consecutive marked
\* pages m, m + 1 give the one-page range (m, m).
C2_MarkedPagesStartRanges ==
    ValidDerivation =>
        LET r == frame.split_ranges
        IN  /\ \A p \in MarkedPages :
                  Cardinality({i \in 1..Len(r) : r[i][1] = p}) = 1
            /\ \A m \in MarkedPages :
                  (m + 1) \in MarkedPages =>
                      \E i \in 1..Len(r) : r[i] = <<m, m>>

\* a valid derivation from pages that arrived unsorted or duplicated, two of
\* them consecutive
C2_Witness ==
    /\ ValidDerivation
    /\ LET arrived == HighConfidencePages(SplitJobRead.result.segments)
       IN  /\ Len(arrived) = 2
           /\ arrived[1] >= arrived[2]
    /\ \E m \in MarkedPages : (m + 1) \in MarkedPages

\* the reference end of the range that starts at page s: the page before the
\* next marked page, or the last page
ReferenceEnd(s) ==
    LET later == {m \in MarkedPages : m > s}
    IN  IF later = {} THEN TotalPages
        ELSE (CHOOSE m \in later : \A x \in later : m <= x) - 1

\* C3: for a valid input with k marked pages the derived list is the
\* reference list: its starts are the marked pages, and page 1 when page 1 is
\* not marked; each range ends before the next marked page and the last at
\* totalPages; it is ascending and has k ranges when page 1 is marked and
\* k + 1 otherwise.
C3_RangesAreReference ==
    ValidDerivation =>
        LET r == frame.split_ranges
            k == Cardinality(MarkedPages)
        IN  /\ Len(r) = IF 1 \in MarkedPages THEN k ELSE k + 1
            /\ {r[i][1] : i \in 1..Len(r)} = MarkedPages \cup {1}
            /\ \A i \in 1..Len(r) : r[i][2] = ReferenceEnd(r[i][1])
            /\ \A i \in 1..(Len(r) - 1) : r[i][1] < r[i + 1][1]

\* a valid derivation with page 1 marked, and so without a leading range
C3_Witness ==
    /\ ValidDerivation
    /\ 1 \in MarkedPages
    /\ Cardinality(MarkedPages) = 2
    /\ Len(frame.split_ranges) = 2

-----------------------------------------------------------------------------
(* Errors of the split operation *)

\* the answer carries no archive
NoArchive == response.status_code # 200 /\ response.body = NoBody

\* C4: when no page is marked, the call fails with the "no high confidence
\* pages" error (400): no range list is derived, nothing is sliced and no
\* archive is returned.
C4_NoMarkedPagesFails ==
    (SplitCalled /\ SplitJobRead.result.has_segments /\ MarkedPages = {}) =>
        /\ NoArchive
        /\ ~frame.derived
        /\ frame.split_ranges = <<>>
        /\ frame.split_pdfs = <<>>
        /\ (/\ SplitJobRead.status = "completed"
            /\ SplitJobRead.original_file_content.kind \in {"corrupt", "pdf"})
           => /\ response.status_code = 400
              /\ response.detail = "No high confidence pages found in the result"

\* a completed job with a readable PDF whose segments list pages, none of
\* them "high": the call ended with the "no high confidence pages" error
C4_Witness ==
    /\ SplitCalled
    /\ SplitJobRead.status = "completed"
    /\ SplitJobRead.original_file_content.kind = "pdf"
    /\ SplitJobRead.result.has_segments
    /\ \E i \in 1..Len(SplitJobRead.result.segments) :
          Len(SplitJobRead.result.segments[i].pages) > 0
    /\ MarkedPages = {}
    /\ response.status_code = 400
    /\ response.detail = "No high confidence pages found in the result"

\* C5: when a marked page, and so a range, lies beyond the source's page
\* count, the call fails and returns no archive.
C5_OutOfRangeFails ==
    (/\ SplitCalled
     /\ frame.derived
     /\ \E i \in 1..Len(frame.split_ranges) :
           frame.split_ranges[i][2] > TotalPages
              \/ frame.split_ranges[i][1] > TotalPages)
    => NoArchive

RECURSIVE SumLen(_)
SumLen(entries) ==
    IF entries = <<>> THEN 0 ELSE Len(Head(entries).content) + SumLen(Tail(entries))

\* C6: in a returned archive the document of each range holds exactly the
\* source pages start..end in order; the page counts add up to totalPages
\* and every source page is in exactly one document.
C6_DocumentsHoldTheirRanges ==
    (SplitCalled /\ response.status_code = 200) =>
        LET r == frame.split_ranges
            entries == response.body.entries
        IN  /\ Len(entries) = Len(r)
            /\ \A i \in 1..Len(r) :
                  /\ Len(entries[i].content) = r[i][2] - r[i][1] + 1
                  /\ \A k \in 1..Len(entries[i].content) :
                        entries[i].content[k] = r[i][1] + k - 1
            /\ SumLen(entries) = TotalPages
            /\ \A p \in 1..TotalPages :
                  Cardinality({i \in 1..Len(entries) :
                      \E k \in 1..Len(entries[i].content) :
                          entries[i].content[k] = p}) = 1

\* C9: a result without `segments`, or with a segment without `pages`, makes
\* the call fail: no archive is built from the remaining data.
C9_MissingFieldFails ==
    (/\ SplitCalled
     /\ \/ ~SplitJobRead.result.has_segments
        \/ \E i \in 1..Len(SplitJobRead.result.segments) :
              ~SplitJobRead.result.segments[i].has_pages)
    => NoArchive

\* C10: an archive is returned only when every derived range was sliced and
\* added, one entry per range; every other outcome of the call is an error
\* without an archive.
C10_NoPartialArchive ==
    response.op = "split" =>
        /\ response.status_code = 200 =>
              /\ frame.derived
              /\ Len(frame.split_ranges) >= 1
              /\ Len(frame.split_pdfs) = Len(frame.split_ranges)
              /\ response.body.kind = "zip"
              /\ Len(response.body.entries) = Len(frame.split_ranges)
        /\ response.status_code # 200 => response.body = NoBody

\* the call sliced a first range, failed on a later one and answered with an
\* error
C10_Witness ==
    /\ SplitCalled
    /\ frame.derived
    /\ Len(frame.split_pdfs) >= 1
    /\ Len(frame.split_pdfs) < Len(frame.split_ranges)
    /\ response.status_code = 500
    /\ response.body = NoBody

-----------------------------------------------------------------------------
(* The archive *)

\* the index of the last "." of a name, 0 when it has none
LastDot(name) ==
    LET dots == {i \in 1..Len(name) : name[i] = "."}
    IN  IF dots = {} THEN 0 ELSE CHOOSE i \in dots : \A j \in dots : j <= i

\* the name without its extension
Stem(name) == IF LastDot(name) = 0 THEN name ELSE SubSeq(name, 1, LastDot(name) - 1)

\* the extension of a name
Extension(name) ==
    IF LastDot(name) = 0 THEN <<>> ELSE SubSeq(name, LastDot(name) + 1, Len(name))

\* "{base}_part_{idx}_pages_{start}-{end}.{ext}"
EntryName(base, idx, range, ext) ==
    Join(base) \o "_part_" \o ToString(idx) \o "_pages_" \o ToString(range[1])
        \o "-" \o ToString(range[2]) \o "." \o Join(ext)

\* one entry per derived range, in ascending range order, with distinct names
EntriesFollowRanges ==
    LET r == frame.split_ranges
        entries == response.body.entries
    IN  /\ Len(entries) = Len(r)
        /\ \A i \in 1..(Len(r) - 1) : r[i][1] < r[i + 1][1]
        /\ \A i, j \in 1..Len(entries) :
              i # j => entries[i].filename # entries[j].filename

\* C7 as claimed, for a source file whose name has an extension: the entry of
\* the idx-th range is named "{base}_part_{idx}_pages_{start}-{end}.{ext}"
\* with the source file's own extension.
C7_EntryNamesOriginalExtension ==
    (SplitCalled /\ response.status_code = 200 /\ LastDot(SplitJobRead.filename) # 0) =>
        /\ EntriesFollowRanges
        /\ \A i \in 1..Len(response.body.entries) :
              response.body.entries[i].filename =
                  EntryName(Stem(SplitJobRead.filename), i, frame.split_ranges[i],
                            Extension(SplitJobRead.filename))

\* C7 (amended): a returned archive has one entry per derived range, in
\* ascending range order; the entry of the idx-th range (start, end) is named
\* "{base}_part_{idx}_pages_{start}-{end}.pdf", base being the source filename
\* up to its last "." (the whole name when it has none) and the extension
\* always "pdf"; the names are pairwise distinct.
C7_EntryNamesPdf ==
    (SplitCalled /\ response.status_code = 200) =>
        /\ EntriesFollowRanges
        /\ \A i \in 1..Len(response.body.entries) :
              response.body.entries[i].filename =
                  EntryName(Stem(SplitJobRead.filename), i, frame.split_ranges[i],
                            <<"p", "d", "f">>)

\* an archive of two entries made from a source file named "b.c.PDF"
C7_Witness ==
    /\ SplitCalled
    /\ response.status_code = 200
    /\ Len(response.body.entries) = 2
    /\ Extension(SplitJobRead.filename) = <<"P", "D", "F">>
    /\ response.body.entries[2].filename = "b.c_part_2_pages_2-3.pdf"

-----------------------------------------------------------------------------
(* The marked pages *)

\* C8: the pages fed to range derivation are exactly the pages listed by the
\* "high" segments, sorted and distinct; a page listed only by other segments
\* starts no range (unless it is page 1, where the leading range starts).
C8_MarkedPagesAreHighPages ==
    (SplitCalled /\ frame.collected) =>
        LET hcp == frame.high_confidence_pages
            r == frame.split_ranges
        IN  /\ ToSet(hcp) = MarkedPages
            /\ \A i \in 1..(Len(hcp) - 1) : hcp[i] < hcp[i + 1]
            /\ \A i \in 1..Len(r) : r[i][1] \in MarkedPages \cup {1}

\* ranges were derived from a result with a "high" segment and another
\* segment that lists a page, not page 1, which no "high" segment lists
C8_Witness ==
    /\ SplitCalled
    /\ frame.derived
    /\ MarkedPages # {}
    /\ \E i \in 1..Len(SplitJobRead.result.segments) :
          LET segment == SplitJobRead.result.segments[i]
          IN  /\ segment.confidence_category # "high"
              /\ \E k \in 1..Len(segment.pages) :
                    /\ segment.pages[k] \notin MarkedPages \cup {1}
                    /\ segment.pages[k] <= TotalPages

-----------------------------------------------------------------------------
(* The job store across calls *)

\* C11: a split_pdf_by_confidence call, successful or failing, leaves
\* jobs_storage as it was, and a call repeated on the same job right after
\* gives the same locals (ranges, split pdfs) and the same answer (entry
\* names): the repeated call changes nothing at all.
C11_SplitLeavesStorage ==
    [][frame'.op = "split" =>
          /\ jobs_storage' = jobs_storage
          /\ (frame.op = "split" /\ frame.job_id = frame'.job_id) =>
                (frame' = frame /\ response' = response)]_vars

\* the call returned an archive of three entries and the job is still stored
\* as completed, with its result and its file bytes
C11_Witness ==
    /\ SplitCalled
    /\ response.status_code = 200
    /\ Len(response.body.entries) = 3
    /\ SplitJobRead.status = "completed"
    /\ SplitJobRead.result.has_segments
    /\ SplitJobRead.original_file_content.kind = "pdf"

\* C13: split_pdf_by_confidence returns an archive for a job id only if the
\* job is stored, its stored status is "completed", its stored result has
\* `segments` and file bytes were stored at creation; an unknown job id gets
\* 404, and a job without stored bytes (created from a file_id alone) or
\* without a stored result (never seen completed by get_job_details) gets 400.
C13_ArchiveOnlyForCompletedStoredJob ==
    response.op = "split" =>
        /\ response.status_code \in {200, 400, 404, 500}
        /\ response.status_code = 200 =>
              /\ response.job_id \in DOMAIN jobs_storage
              /\ jobs_storage[response.job_id].status = "completed"
              /\ jobs_storage[response.job_id].result.truthy
              /\ jobs_storage[response.job_id].result.has_segments
              /\ jobs_storage[response.job_id].original_file_content.kind = "pdf"
        /\ response.job_id \notin DOMAIN jobs_storage => response.status_code = 404
        /\ (/\ response.job_id \in DOMAIN jobs_storage
            /\ \/ jobs_storage[response.job_id].original_file_content.kind = "none"
               \/ ~jobs_storage[response.job_id].result.truthy
               \/ jobs_storage[response.job_id].status # "completed")
           => (response.status_code = 400 /\ response.body = NoBody)

\* a job created from a file_id alone, seen completed with segments by
\* get_job_details, was refused by the split call
C13_Witness ==
    /\ response.op = "split"
    /\ response.job_id \in DOMAIN jobs_storage
    /\ jobs_storage[response.job_id].original_file_content.kind = "none"
    /\ jobs_storage[response.job_id].status = "completed"
    /\ jobs_storage[response.job_id].result.has_segments
    /\ response.status_code = 400

\* the JobDetails of a stored job
DetailsOf(job) ==
    [kind |-> "details", status |-> job.status, result |-> job.result,
     error_message |-> job.error_message]

\* C14: get_job_details changes a stored job only when the remote service
\* answered its status request: when the request fails the store is left as
\* it was and the stored values are returned; a stored result changes only to
\* the non-empty result of a "completed" answer and, once set, is never
\* cleared; an unknown job id gets 404 and changes nothing.  No other call
\* changes a stored job.
C14_GetChangesOnlyFromAnswers ==
    [][/\ \A j \in DOMAIN jobs_storage :
             /\ j \in DOMAIN jobs_storage'
             /\ jobs_storage'[j] # jobs_storage[j] =>
                   /\ response'.op = "get"
                   /\ response'.job_id = j
                   /\ request' = "answered"
             /\ jobs_storage'[j].result # jobs_storage[j].result =>
                   /\ jobs_storage'[j].status = "completed"
                   /\ jobs_storage'[j].result.truthy
             /\ jobs_storage[j].result.truthy => jobs_storage'[j].result.truthy
       /\ (response'.op = "get" /\ request' # "answered") =>
             jobs_storage' = jobs_storage
       /\ (response'.op = "get" /\ response'.job_id \in DOMAIN jobs_storage) =>
             /\ response'.status_code = 200
             /\ response'.body = DetailsOf(jobs_storage'[response'.job_id])
       /\ (response'.op = "get" /\ response'.job_id \notin DOMAIN jobs_storage) =>
             /\ response'.status_code = 404
             /\ response'.body = NoBody
             /\ jobs_storage' = jobs_storage
      ]_vars

\* the status request for a job stored as completed with a result failed:
\* the answer of get_job_details carries the stored result
C14_Witness ==
    /\ response.op = "get"
    /\ request = "failed"
    /\ response.job_id \in DOMAIN jobs_storage
    /\ jobs_storage[response.job_id].status = "completed"
    /\ jobs_storage[response.job_id].result.has_segments
    /\ response.body = DetailsOf(jobs_storage[response.job_id])

-----------------------------------------------------------------------------
(* The polling script *)

\* C12: autosplit.py requests the job status only while the last status it
\* observed is "pending" or "processing", and it stops polling at the first
\* observed status outside that set; it has no timeout and no attempt limit.
\* So a run of the script that has ended either observed a status outside
\* {"pending", "processing"} or was ended by a request that raised.
C12_PollsUntilTerminalStatus ==
    client.pc = "exited" =>
        \/ client.error = "HTTPError"
        \/ /\ client.error = ""
           /\ client.status # ""
           /\ client.status \notin PollingStatuses

=============================================================================
